---- MODULE Spec2Model ----
(***************************************************************************)
(* DarkCurse: the user model (src/models/user.ts), the static tables of    *)
(* src/constants and the overview and profile controllers.                 *)
(*                                                                         *)
(* A stored user is a row of the DAO's table; a UserModel is a copy of it  *)
(* held in memory by one request.  Getters are operators; asynchronous     *)
(* methods are actions, cut at the awaits where another request can run.   *)
(***************************************************************************)
EXTENDS Integers, Sequences, FiniteSets, TLC

VARIABLES
    store,        \* the DAO's user table: id -> stored record, or Null
    user,         \* the UserModel each request holds, or Null
    pending,      \* DAO writes issued and not yet applied to the table
    bankHistory,  \* the bank history table, a sequence of entries
    result,       \* what the last operation did and returned
    audit         \* bookkeeping for the properties: initial values and sums

vars == <<store, user, pending, bankHistory, result, audit>>

-----------------------------------------------------------------------------
(* Bounds of the model *)

MaxExperience == 1100
MaxAmount == 1
MaxUpdates == 2
MaxQuantity == 2
MaxNewUnits == 2
MaxTrainCalls == 2
MaxHistory == 2
MaxFortLevelChecked == 4

-----------------------------------------------------------------------------
(* JavaScript values *)

Null == [null |-> TRUE]
Num(n) == [t |-> "number", v |-> n]
NaN == [t |-> "NaN"]
TypeError == [t |-> "TypeError"]
IsNum(x) == x.t = "number"

Min(a, b) == IF a < b THEN a ELSE b

RECURSIVE SumSeq(_)
SumSeq(s) == IF s = <<>> THEN 0 ELSE Head(s) + SumSeq(Tail(s))

\* Array.prototype.filter is SelectSeq.  Array.prototype.find is the first
\* element of the filtered array: a one-element sequence, or <<>> for undefined
Find(filtered) == IF filtered = <<>> THEN <<>> ELSE <<Head(filtered)>>

\* Array.prototype.sort((a, b) => b - a), by insertion
RECURSIVE InsertDesc(_, _)
InsertDesc(x, s) ==
    IF s = <<>> THEN <<x>>
    ELSE IF x >= Head(s) THEN <<x>> \o s
    ELSE <<Head(s)>> \o InsertDesc(x, Tail(s))

RECURSIVE SortDesc(_)
SortDesc(s) == IF s = <<>> THEN <<>> ELSE InsertDesc(Head(s), SortDesc(Tail(s)))

-----------------------------------------------------------------------------
(* src/constants *)

Fortifications ==
    <<
       [name |-> "Manor", levelRequirement |-> 0, hitpoints |-> 50,
        costPerRepairPoint |-> 0, goldPerTurn |-> 1000,
        defenseBonusPercentage |-> 0, cost |-> 0],
       [name |-> "Village", levelRequirement |-> 5, hitpoints |-> 100,
        costPerRepairPoint |-> 15, goldPerTurn |-> 2000,
        defenseBonusPercentage |-> 5, cost |-> 100000],
       [name |-> "Town", levelRequirement |-> 10, hitpoints |-> 200,
        costPerRepairPoint |-> 35, goldPerTurn |-> 3000,
        defenseBonusPercentage |-> 10, cost |-> 250000],
       [name |-> "Outpost", levelRequirement |-> 15, hitpoints |-> 300,
        costPerRepairPoint |-> 75, goldPerTurn |-> 4000,
        defenseBonusPercentage |-> 15, cost |-> 500000],
       [name |-> "Outpost Level 2", levelRequirement |-> 20, hitpoints |-> 500,
        costPerRepairPoint |-> 125, goldPerTurn |-> 5000,
        defenseBonusPercentage |-> 20, cost |-> 1000000],
       [name |-> "Outpost Level 3", levelRequirement |-> 25, hitpoints |-> 750,
        costPerRepairPoint |-> 225, goldPerTurn |-> 6000,
        defenseBonusPercentage |-> 25, cost |-> 2000000],
       [name |-> "Stronghold", levelRequirement |-> 30, hitpoints |-> 1000,
        costPerRepairPoint |-> 325, goldPerTurn |-> 7000,
        defenseBonusPercentage |-> 30, cost |-> 3000000],
       [name |-> "Stronghold Level 2", levelRequirement |-> 35, hitpoints |-> 1500,
        costPerRepairPoint |-> 450, goldPerTurn |-> 8000,
        defenseBonusPercentage |-> 35, cost |-> 4000000],
       [name |-> "Stronghold Level 3", levelRequirement |-> 40, hitpoints |-> 2000,
        costPerRepairPoint |-> 550, goldPerTurn |-> 9000,
        defenseBonusPercentage |-> 40, cost |-> 5000000],
       [name |-> "Fortress", levelRequirement |-> 45, hitpoints |-> 2500,
        costPerRepairPoint |-> 675, goldPerTurn |-> 10000,
        defenseBonusPercentage |-> 45, cost |-> 7500000],
       [name |-> "Fortress Level 2", levelRequirement |-> 50, hitpoints |-> 3000,
        costPerRepairPoint |-> 750, goldPerTurn |-> 11000,
        defenseBonusPercentage |-> 50, cost |-> 10000000],
       [name |-> "Fortress Level 3", levelRequirement |-> 55, hitpoints |-> 3500,
        costPerRepairPoint |-> 875, goldPerTurn |-> 12000,
        defenseBonusPercentage |-> 55, cost |-> 15000000],
       [name |-> "Citadel", levelRequirement |-> 60, hitpoints |-> 4000,
        costPerRepairPoint |-> 1150, goldPerTurn |-> 13000,
        defenseBonusPercentage |-> 60, cost |-> 20000000],
       [name |-> "Citadel Level 2", levelRequirement |-> 65, hitpoints |-> 4500,
        costPerRepairPoint |-> 1550, goldPerTurn |-> 14000,
        defenseBonusPercentage |-> 65, cost |-> 30000000],
       [name |-> "Citadel Level 3", levelRequirement |-> 70, hitpoints |-> 5000,
        costPerRepairPoint |-> 1850, goldPerTurn |-> 15000,
        defenseBonusPercentage |-> 70, cost |-> 40000000],
       [name |-> "Castle", levelRequirement |-> 75, hitpoints |-> 5500,
        costPerRepairPoint |-> 2100, goldPerTurn |-> 16000,
        defenseBonusPercentage |-> 75, cost |-> 50000000],
       [name |-> "Castle Level 2", levelRequirement |-> 80, hitpoints |-> 6000,
        costPerRepairPoint |-> 2900, goldPerTurn |-> 17000,
        defenseBonusPercentage |-> 80, cost |-> 75000000],
       [name |-> "Castle Level 3", levelRequirement |-> 85, hitpoints |-> 6500,
        costPerRepairPoint |-> 3600, goldPerTurn |-> 18000,
        defenseBonusPercentage |-> 85, cost |-> 100000000],
       [name |-> "Kingdom", levelRequirement |-> 90, hitpoints |-> 7000,
        costPerRepairPoint |-> 5000, goldPerTurn |-> 19000,
        defenseBonusPercentage |-> 90, cost |-> 150000000],
       [name |-> "Kingdom Level 2", levelRequirement |-> 95, hitpoints |-> 7500,
        costPerRepairPoint |-> 6750, goldPerTurn |-> 20000,
        defenseBonusPercentage |-> 95, cost |-> 200000000],
       [name |-> "Kingdom Level 3", levelRequirement |-> 100, hitpoints |-> 8000,
        costPerRepairPoint |-> 7500, goldPerTurn |-> 21000,
        defenseBonusPercentage |-> 100, cost |-> 250000000],
       [name |-> "Empire", levelRequirement |-> 105, hitpoints |-> 8500,
        costPerRepairPoint |-> 8250, goldPerTurn |-> 22000,
        defenseBonusPercentage |-> 105, cost |-> 300000000],
       [name |-> "Empire Level 2", levelRequirement |-> 110, hitpoints |-> 9000,
        costPerRepairPoint |-> 9000, goldPerTurn |-> 23000,
        defenseBonusPercentage |-> 110, cost |-> 350000000],
       [name |-> "Empire Level 3", levelRequirement |-> 115, hitpoints |-> 9500,
        costPerRepairPoint |-> 9750, goldPerTurn |-> 24000,
        defenseBonusPercentage |-> 115, cost |-> 400000000]
    >>

UnitTypes ==
    <<
       [name |-> "Worker", type |-> "WORKER", level |-> 1, bonus |-> 65, cost |-> 2000],
       [name |-> "Soldier", type |-> "OFFENSE", level |-> 1, bonus |-> 3, cost |-> 1500],
       [name |-> "Knight", type |-> "OFFENSE", level |-> 2, bonus |-> 20, cost |-> 10000],
       [name |-> "Berserker", type |-> "OFFENSE", level |-> 3, bonus |-> 50, cost |-> 25000],
       [name |-> "Guard", type |-> "DEFENSE", level |-> 1, bonus |-> 3, cost |-> 1500],
       [name |-> "Archer", type |-> "DEFENSE", level |-> 2, bonus |-> 20, cost |-> 10000],
       [name |-> "Royal Guard", type |-> "DEFENSE", level |-> 3, bonus |-> 50, cost |-> 25000],
       [name |-> "Spy", type |-> "SPY", level |-> 1, bonus |-> 3, cost |-> 1500],
       [name |-> "Infiltrator", type |-> "SPY", level |-> 2, bonus |-> 20, cost |-> 10000],
       [name |-> "Assassin", type |-> "SPY", level |-> 3, bonus |-> 50, cost |-> 25000],
       [name |-> "Sentry", type |-> "SENTRY", level |-> 1, bonus |-> 3, cost |-> 1500],
       [name |-> "Sentinel", type |-> "SENTRY", level |-> 2, bonus |-> 20, cost |-> 10000],
       [name |-> "Inquisitor", type |-> "SENTRY", level |-> 3, bonus |-> 50, cost |-> 25000]
    >>

Levels == <<0, 200, 500, 1000>>

LevelKeys == DOMAIN Levels
FortLevels == DOMAIN Fortifications

UnitKinds == {"CITIZEN", "WORKER", "OFFENSE", "DEFENSE", "SPY", "SENTRY"}

-----------------------------------------------------------------------------
(* IEEE-754 binary64 arithmetic, as JavaScript's / and * compute it.        *)
(* A positive double is [man, exp]: man is its 53-bit significand, most     *)
(* significant bit first, and its value is man * 2^exp.  Zero is FZero.     *)
(* Results are rounded to nearest, ties to even.                            *)

MantissaBits == 53

FZero == [zero |-> TRUE]

\* the binary digits of n >= 0, most significant first (<<>> for 0)
RECURSIVE ToBits(_)
ToBits(n) == IF n = 0 THEN <<>> ELSE ToBits(n \div 2) \o <<n % 2>>

RECURSIVE FromBits(_)
FromBits(b) ==
    IF b = <<>> THEN 0
    ELSE 2 * FromBits(SubSeq(b, 1, Len(b) - 1)) + b[Len(b)]

\* b with zero digits put in front, to n digits
Pad(b, n) == [i \in 1..(n - Len(b)) |-> 0] \o b

\* the next n binary digits of the fraction r / d (0 <= r < d < 2^23), and
\* the remainder left after them; eight digits of the long division a step
RECURSIVE DivBits(_, _, _)
DivBits(r, d, n) ==
    IF n = 0 THEN [bits |-> <<>>, rem |-> r]
    ELSE LET c == Min(n, 8)
             t == r * 2^c
             rest == DivBits(t % d, d, n - c)
         IN  [bits |-> Pad(ToBits(t \div d), c) \o rest.bits, rem |-> rest.rem]

\* how many zero digits the fraction r / d (0 < r < d) starts with
RECURSIVE LeadingZeros(_, _)
LeadingZeros(r, d) == IF 2 * r >= d THEN 0 ELSE 1 + LeadingZeros(2 * r, d)

\* b + 1
Increment(b) ==
    IF \A i \in 1..Len(b) : b[i] = 1
    THEN <<1>> \o [i \in 1..Len(b) |-> 0]
    ELSE LET p == CHOOSE i \in 1..Len(b) :
                      b[i] = 0 /\ \A j \in (i + 1)..Len(b) : b[j] = 1
         IN  [i \in 1..Len(b) |-> IF i < p THEN b[i] ELSE IF i = p THEN 1 ELSE 0]

\* round the digits kept (exponent exp of their last digit), given the first
\* digit dropped and whether anything non-zero follows it
RoundNearestEven(kept, exp, roundBit, sticky) ==
    LET up == roundBit = 1 /\ (sticky \/ kept[Len(kept)] = 1)
        m  == IF up THEN Increment(kept) ELSE kept
    IN  IF Len(m) > MantissaBits
        THEN [man |-> SubSeq(m, 1, MantissaBits), exp |-> exp + 1]
        ELSE [man |-> m, exp |-> exp]

\* a / b for integers a >= 0, b > 0
FDiv(a, b) ==
    IF a = 0 THEN FZero
    ELSE LET int  == ToBits(a \div b)
             r    == a % b
             z    == IF int = <<>> /\ r > 0 THEN LeadingZeros(r, b) ELSE 0
             skip == DivBits(r, b, z)
             need == MantissaBits - Len(int)
             frac == DivBits(skip.rem, b, need)
             next == DivBits(frac.rem, b, 1)
         IN  RoundNearestEven(int \o frac.bits, 0 - (z + need),
                              next.bits[1], next.rem # 0)

\* the digits of b * k + carry, for a small integer k; eight digits of b a
\* step, from the least significant
RECURSIVE MulCarry(_, _, _)
MulCarry(b, k, carry) ==
    IF b = <<>> THEN ToBits(carry)
    ELSE LET c == Min(Len(b), 8)
             t == FromBits(SubSeq(b, Len(b) - c + 1, Len(b))) * k + carry
             low == Pad(ToBits(t % 2^c), c)
         IN  MulCarry(SubSeq(b, 1, Len(b) - c), k, t \div 2^c) \o low

\* x * k for a double x and an integer k >= 1 (itself exactly a double)
FMul(x, k) ==
    IF x = FZero THEN FZero
    ELSE LET p == MulCarry(x.man, k, 0)
             d == Len(p) - MantissaBits
         IN  IF d = 0 THEN [man |-> p, exp |-> x.exp]
             ELSE RoundNearestEven(SubSeq(p, 1, MantissaBits), x.exp + d,
                                   p[MantissaBits + 1],
                                   \E i \in (MantissaBits + 2)..Len(p) : p[i] = 1)

\* Math.floor of a double below 2^31
Floor(x) ==
    IF x = FZero THEN 0
    ELSE IF x.exp >= 0 THEN FromBits(x.man \o [i \in 1..x.exp |-> 0])
    ELSE IF MantissaBits + x.exp <= 0 THEN 0
    ELSE FromBits(SubSeq(x.man, 1, MantissaBits + x.exp))

-----------------------------------------------------------------------------
(* Strings of decimal digits: the keys of a JavaScript object, and Number() *)

RECURSIVE KeyString(_)
KeyString(n) == IF n < 10 THEN <<n>> ELSE KeyString(n \div 10) \o <<n % 10>>

RECURSIVE Number(_)
Number(str) ==
    IF str = <<>> THEN 0
    ELSE 10 * Number(SubSeq(str, 1, Len(str) - 1)) + str[Len(str)]

\* Object.values and Object.entries of a table with integer keys, in key order
ObjectValues(table) == [i \in 1..Len(table) |-> table[i]]
ObjectEntries(table) == [i \in 1..Len(table) |-> <<KeyString(i), table[i]>>]

\* Intl.NumberFormat('en-GB').format
Pad3(k) ==
    IF k < 10 THEN "00" \o ToString(k)
    ELSE IF k < 100 THEN "0" \o ToString(k)
    ELSE ToString(k)

RECURSIVE GroupDigits(_)
GroupDigits(n) ==
    IF n < 1000 THEN ToString(n)
    ELSE GroupDigits(n \div 1000) \o "," \o Pad3(n % 1000)

NumberFormat(x) ==
    IF x = NaN THEN "NaN"
    ELSE IF x.v < 0 THEN "-" \o GroupDigits(0 - x.v)
    ELSE GroupDigits(x.v)

-----------------------------------------------------------------------------
(* src/models/user.ts: the UserModel and its getters *)

\* faulty variant of UserModel: gold and goldInBank copied into each other's field
UserModelSwapped(userData) ==
    [id            |-> userData.id,
     displayName   |-> userData.displayName,
     email         |-> userData.email,
     passwordHash  |-> userData.passwordHash,
     race          |-> userData.race,
     class         |-> userData.class,
     experience    |-> userData.experience,
     gold          |-> userData.goldInBank,
     goldInBank    |-> userData.gold,
     fortLevel     |-> userData.fortLevel,
     fortHitpoints |-> userData.fortHitpoints,
     attackTurns   |-> userData.attackTurns,
     units         |-> userData.units]

UserModel(userData) ==
    [id            |-> userData.id,
     displayName   |-> userData.displayName,
     email         |-> userData.email,
     passwordHash  |-> userData.passwordHash,
     race          |-> userData.race,
     class         |-> userData.class,
     experience    |-> userData.experience,
     gold          |-> userData.gold,
     goldInBank    |-> userData.goldInBank,
     fortLevel     |-> userData.fortLevel,
     fortHitpoints |-> userData.fortHitpoints,
     attackTurns   |-> userData.attackTurns,
     units         |-> userData.units]

Quantities(units) == [i \in 1..Len(units) |-> units[i].quantity]

population(u) == SumSeq(Quantities(u.units))

armySize(u) ==
    SumSeq(Quantities(SelectSeq(u.units,
        LAMBDA unit : unit.type # "CITIZEN" /\ unit.type # "WORKER")))

citizens(u) ==
    LET found == Find(SelectSeq(u.units, LAMBDA unit : unit.type = "CITIZEN"))
    IN  IF found = <<>> THEN TypeError ELSE Num(found[1].quantity)

\* faulty variant of goldPerTurn: the units are not filtered to the workers, and a
\* unit UnitTypes does not list adds nothing
goldPerTurnAllUnits(u) ==
    LET bonusOf(unit) ==
            LET found == Find(SelectSeq(UnitTypes, LAMBDA unitType :
                             unitType.type = unit.type /\ unitType.level = unit.level))
            IN  IF found = <<>> THEN 0 ELSE found[1].bonus
    IN  IF u.fortLevel \notin FortLevels THEN TypeError
        ELSE Num(SumSeq([i \in 1..Len(u.units) |->
                            bonusOf(u.units[i]) * u.units[i].quantity])
                 + Fortifications[u.fortLevel].goldPerTurn)

goldPerTurn(u) ==
    LET workerUnits == SelectSeq(u.units, LAMBDA units : units.type = "WORKER")
        unitTypeOf(unit) ==
            Find(SelectSeq(UnitTypes, LAMBDA unitType :
                unitType.type = unit.type /\ unitType.level = unit.level))
    IN  IF \E i \in 1..Len(workerUnits) : unitTypeOf(workerUnits[i]) = <<>>
        THEN TypeError
        ELSE IF u.fortLevel \notin FortLevels THEN TypeError
        ELSE LET workerGoldPerTurn ==
                     SumSeq([i \in 1..Len(workerUnits) |->
                         unitTypeOf(workerUnits[i])[1].bonus
                             * workerUnits[i].quantity])
                 fortificationGoldPerTurn == Fortifications[u.fortLevel].goldPerTurn
             IN  Num(workerGoldPerTurn + fortificationGoldPerTurn)

\* faulty variant of level: a threshold equal to the experience counts as reached
levelInclusive(u) ==
    IF u.experience = 0 THEN Num(1)
    ELSE LET possibleLevels ==
                 SortDesc(SelectSeq(ObjectValues(Levels),
                                 LAMBDA levelXp : u.experience >= levelXp))
         IN  IF possibleLevels = <<>> THEN TypeError
             ELSE LET xpOfCurrentLevel == possibleLevels[1]
                      entry == Find(SelectSeq(ObjectEntries(Levels),
                                    LAMBDA e : e[2] = xpOfCurrentLevel))
                  IN  Num(Number(entry[1][1]))

level(u) ==
    IF u.experience = 0 THEN Num(1)
    ELSE LET possibleLevels ==
                 SortDesc(SelectSeq(ObjectValues(Levels),
                                 LAMBDA levelXp : u.experience > levelXp))
         IN  IF possibleLevels = <<>> THEN TypeError
             ELSE LET xpOfCurrentLevel == possibleLevels[1]
                      entry == Find(SelectSeq(ObjectEntries(Levels),
                                    LAMBDA e : e[2] = xpOfCurrentLevel))
                  IN  Num(Number(entry[1][1]))

xpToNextLevel(u) ==
    LET currentLevel == level(u)
    IN  IF ~IsNum(currentLevel) THEN TypeError
        ELSE IF currentLevel.v + 1 \notin LevelKeys THEN NaN
        ELSE Num(Levels[currentLevel.v + 1] - u.experience)

fortHealth(u) ==
    IF u.fortLevel \notin FortLevels THEN TypeError
    ELSE [t          |-> "FortHealth",
          current    |-> u.fortHitpoints,
          max        |-> Fortifications[u.fortLevel].hitpoints,
          percentage |-> Floor(FMul(FDiv(u.fortHitpoints,
                                         Fortifications[u.fortLevel].hitpoints),
                                    100))]

availableUnitTypes == SelectSeq(UnitTypes, LAMBDA unitType : unitType.level = 1)

maximumBankDeposits == 1

SameUnit(a, b) == a.type = b.type /\ a.level = b.level

\* The methods below return the UserModel as the method leaves it; the DAO
\* call each of them ends with is issued by the action that applies it.

addGold(u, amount) == [u EXCEPT !.gold = @ + amount]

\* faulty variant of subtractGold: the gold is kept from falling below zero
subtractGoldClamped(u, amount) ==
    [u EXCEPT !.gold = IF @ - amount < 0 THEN 0 ELSE @ - amount]

subtractGold(u, amount) == [u EXCEPT !.gold = @ - amount]

addBankedGold(u, amount) == [u EXCEPT !.goldInBank = @ + amount]

subtractBankedGold(u, amount) == [u EXCEPT !.goldInBank = @ - amount]

\* TypeError when the user holds no CITIZEN entry (find returns undefined)
trainNewUnits(u, newUnits) ==
    LET totalNewUnits == SumSeq(Quantities(newUnits))
        citizenAt == {i \in 1..Len(u.units) : u.units[i].type = "CITIZEN"}
    IN  IF citizenAt = {} THEN TypeError
        ELSE
        LET first == CHOOSE i \in citizenAt : \A j \in citizenAt : i <= j
            \* citizenUnits.quantity -= totalNewUnits
            subtracted == [u.units EXCEPT ![first].quantity = @ - totalNewUnits]
            \* every unit that some new unit names gets the quantity of the
            \* first new unit naming it; unitsToUpdate shares its objects with
            \* this.units, so the update shows in this.units
            existing ==
                [i \in 1..Len(subtracted) |->
                    LET unit == subtracted[i]
                        newUnit == Find(SelectSeq(newUnits, LAMBDA n : SameUnit(n, unit)))
                    IN  IF newUnit = <<>> THEN unit
                        ELSE [unit EXCEPT !.quantity = @ + newUnit[1].quantity]]
            \* Object.assign(unitsToUpdate, this.units) copies every index of
            \* this.units over unitsToUpdate: the array is this.units again
            newUnitsToAdd ==
                SelectSeq(newUnits,
                    LAMBDA n : Find(SelectSeq(existing, LAMBDA unit : SameUnit(unit, n))) = <<>>)
        IN  [u EXCEPT !.units = existing \o newUnitsToAdd]

-----------------------------------------------------------------------------
(* The DAOs (src/daos, not part of the sources given): a table of rows      *)

UserIds == 1..2
Requests == 1..2
FetchIds == UserIds \cup {3}

EmailOf(id) == IF id = 1 THEN "one@example.org" ELSE "two@example.org"
Emails == {EmailOf(id) : id \in UserIds} \cup {"nobody@example.org"}

daoFetchById(id) == IF id \in DOMAIN store THEN store[id] ELSE Null

daoFetchByEmail(email) ==
    LET ids == {i \in DOMAIN store : store[i] # Null /\ store[i].email = email}
    IN  IF ids = {} THEN Null ELSE store[CHOOSE i \in ids : TRUE]

daoFetchAll ==
    LET ids == {i \in DOMAIN store : store[i] # Null}
        RECURSIVE rows(_)
        rows(S) == IF S = {} THEN <<>>
                   ELSE LET i == CHOOSE x \in S : \A y \in S : x <= y
                        IN  <<store[i]>> \o rows(S \ {i})
    IN  rows(ids)

\* a write the DAO has been handed: setGold, setBankedGold or setUnits
daoWrite(table, w) ==
    IF w.id \notin DOMAIN table \/ table[w.id] = Null THEN table
    ELSE IF w.op = "setGold" THEN [table EXCEPT ![w.id].gold = w.value]
    ELSE IF w.op = "setBankedGold" THEN [table EXCEPT ![w.id].goldInBank = w.value]
    ELSE [table EXCEPT ![w.id].units = w.value]

\* bankHistory.fetchToUserHistoryForLastTwentyFourHours: the entries sent to
\* the user in the last 24 hours
fetchToUserHistoryForLastTwentyFourHours(u) ==
    SelectSeq(bankHistory, LAMBDA h : h.toUserId = u.id /\ h.hoursAgo < 24)

-----------------------------------------------------------------------------
(* src/models/user.ts: the static fetches and fetchAvailableBankDeposits    *)

fetchById(id) ==
    LET userRow == daoFetchById(id)
    IN  IF userRow = Null THEN Null ELSE UserModel(userRow)

fetchByEmail(email) ==
    LET userRow == daoFetchByEmail(email)
    IN  IF userRow = Null THEN Null ELSE UserModel(userRow)

fetchAll == [i \in 1..Len(daoFetchAll) |-> UserModel(daoFetchAll[i])]

fetchAvailableBankDeposits(u) ==
    LET depositsUsed == fetchToUserHistoryForLastTwentyFourHours(u)
        bankingActions ==
            SelectSeq(depositsUsed,
                LAMBDA history :
                    /\ history.fromUserId = u.id
                    /\ history.fromUserAccount = "HAND"
                    /\ history.historyType = "PLAYER_TRANSFER")
    IN  maximumBankDeposits - Len(bankingActions)

-----------------------------------------------------------------------------
(* Requests.  Each holds at most one UserModel; a DAO write is issued by    *)
(* the method and applied to the table later, by DaoApply.                  *)

Loaded(req) == user[req] # Null

Write(op, id, value) ==
    [op |-> op, id |-> id, value |-> value, n |-> audit.writes + 1]

\* what the bookkeeping remembers of the UserModel a request has just loaded
Rebase(req, u) ==
    [audit EXCEPT !.base[req] = IF u = Null THEN Null ELSE [units |-> u.units],
                  !.requested[req] = 0,
                  !.citizenRequested[req] = FALSE]

FetchById(req, id) ==
    /\ user' = [user EXCEPT ![req] = fetchById(id)]
    /\ result' = [op |-> "fetchById", req |-> req, arg |-> id, ret |-> fetchById(id)]
    /\ audit' = Rebase(req, fetchById(id))
    /\ UNCHANGED <<store, pending, bankHistory>>

FetchByEmail(req, email) ==
    /\ user' = [user EXCEPT ![req] = fetchByEmail(email)]
    /\ result' = [op |-> "fetchByEmail", req |-> req, arg |-> email,
                  ret |-> fetchByEmail(email)]
    /\ audit' = Rebase(req, fetchByEmail(email))
    /\ UNCHANGED <<store, pending, bankHistory>>

FetchAll(req) ==
    /\ result' = [op |-> "fetchAll", req |-> req, ret |-> fetchAll]
    /\ UNCHANGED <<store, user, pending, bankHistory, audit>>

\* addGold, subtractGold, addBankedGold and subtractBankedGold: the field is
\* changed in memory and the DAO is handed the new value
GoldUpdate(req, name, after, daoOp, field, delta) ==
    /\ Loaded(req)
    /\ audit.updates < MaxUpdates
    /\ user' = [user EXCEPT ![req] = after]
    /\ pending' = pending \cup {Write(daoOp, after.id, after[field])}
    /\ result' = [op |-> name, req |-> req, before |-> user[req][field],
                  delta |-> delta, write |-> audit.writes + 1]
    /\ audit' = [audit EXCEPT
                     !.updates = @ + 1, !.writes = @ + 1,
                     !.delta[field][after.id] = @ + delta,
                     !.together = @ \/ \E w \in pending :
                                           w.op = daoOp /\ w.id = after.id]
    /\ UNCHANGED <<store, bankHistory>>

AddGold(req, amount) ==
    GoldUpdate(req, "addGold", addGold(user[req], amount),
               "setGold", "gold", amount)

SubtractGold(req, amount) ==
    GoldUpdate(req, "subtractGold", subtractGold(user[req], amount),
               "setGold", "gold", 0 - amount)

AddBankedGold(req, amount) ==
    GoldUpdate(req, "addBankedGold", addBankedGold(user[req], amount),
               "setBankedGold", "goldInBank", amount)

SubtractBankedGold(req, amount) ==
    GoldUpdate(req, "subtractBankedGold", subtractBankedGold(user[req], amount),
               "setBankedGold", "goldInBank", 0 - amount)

TrainNewUnits(req, newUnits) ==
    /\ Loaded(req)
    /\ audit.trainCalls < MaxTrainCalls
    /\ LET after == trainNewUnits(user[req], newUnits)
       IN  IF after = TypeError
           THEN /\ result' = [op |-> "trainNewUnits", req |-> req,
                              newUnits |-> newUnits, before |-> user[req].units,
                              rejected |-> TRUE]
                /\ audit' = [audit EXCEPT !.trainCalls = @ + 1]
                /\ UNCHANGED <<user, pending>>
           ELSE /\ user' = [user EXCEPT ![req] = after]
                /\ pending' = pending \cup {Write("setUnits", after.id, after.units)}
                /\ result' = [op |-> "trainNewUnits", req |-> req,
                              newUnits |-> newUnits, before |-> user[req].units,
                              rejected |-> FALSE]
                /\ audit' =
                       [audit EXCEPT
                           !.trainCalls = @ + 1, !.writes = @ + 1,
                           !.requested[req] = @ + SumSeq(Quantities(newUnits)),
                           !.citizenRequested[req] =
                               @ \/ \E i \in 1..Len(newUnits) :
                                        newUnits[i].type = "CITIZEN"]
    /\ UNCHANGED <<store, bankHistory>>

DaoApply(w) ==
    /\ w \in pending
    /\ store' = daoWrite(store, w)
    /\ pending' = pending \ {w}
    /\ result' = [op |-> "daoWrite", write |-> w.n]
    /\ UNCHANGED <<user, bankHistory, audit>>

FetchAvailableBankDeposits(req) ==
    /\ Loaded(req)
    /\ result' = [op |-> "fetchAvailableBankDeposits", req |-> req,
                  ret |-> fetchAvailableBankDeposits(user[req])]
    /\ UNCHANGED <<store, user, pending, bankHistory, audit>>

-----------------------------------------------------------------------------
(* src/controllers/main: the overview page and the user profile             *)

\* what a getter that threw leaves of the request
Threw(values) == \E i \in 1..Len(values) : values[i] = TypeError

overviewView(u) ==
    IF Threw(<<citizens(u), level(u), xpToNextLevel(u), fortHealth(u), goldPerTurn(u)>>)
    THEN [status |-> "rejected"]
    ELSE [status        |-> "rendered",
          displayName   |-> u.displayName,
          race          |-> u.race,
          class         |-> u.class,
          attackTurns   |-> NumberFormat(Num(u.attackTurns)),
          population    |-> NumberFormat(Num(population(u))),
          armySize      |-> NumberFormat(Num(armySize(u))),
          citizens      |-> NumberFormat(citizens(u)),
          experience    |-> NumberFormat(Num(u.experience)),
          level         |-> NumberFormat(level(u)),
          xpToNextLevel |-> NumberFormat(xpToNextLevel(u)),
          fortHealth    |->
              [current    |-> NumberFormat(Num(fortHealth(u).current)),
               max        |-> NumberFormat(Num(fortHealth(u).max)),
               percentage |-> fortHealth(u).percentage],
          gold          |-> NumberFormat(Num(u.gold)),
          goldPerTurn   |-> NumberFormat(goldPerTurn(u)),
          goldInBank    |-> NumberFormat(Num(u.goldInBank))]

overviewPage(req) ==
    /\ user' = [user EXCEPT ![req] = fetchById(1)]
    /\ result' = [op |-> "overviewPage", req |-> req,
                  view |-> IF fetchById(1) = Null THEN [status |-> "404"]
                           ELSE overviewView(fetchById(1))]
    /\ audit' = Rebase(req, fetchById(1))
    /\ UNCHANGED <<store, pending, bankHistory>>

userProfileView(u) ==
    IF u = Null THEN [status |-> "rejected"]
    ELSE IF Threw(<<level(u)>>) \/ u.fortLevel \notin FortLevels
    THEN [status |-> "rejected"]
    ELSE [status        |-> "rendered",
          displayName   |-> u.displayName,
          race          |-> u.race,
          class         |-> u.class,
          level         |-> level(u).v,
          population    |-> population(u),
          armySize      |-> armySize(u),
          fortification |-> Fortifications[u.fortLevel].name,
          gold          |-> NumberFormat(Num(u.gold))]

renderUserProfile(req, userProfileId) ==
    /\ user' = [user EXCEPT ![req] = fetchById(userProfileId)]
    /\ result' = [op |-> "renderUserProfile", req |-> req, arg |-> userProfileId,
                  view |-> userProfileView(fetchById(userProfileId))]
    /\ audit' = Rebase(req, fetchById(userProfileId))
    /\ UNCHANGED <<store, pending, bankHistory>>

-----------------------------------------------------------------------------
(* Initial states: the rows the table holds before any request              *)

Unit(type, lvl, quantity) == [type |-> type, level |-> lvl, quantity |-> quantity]

NewUser(id) ==
    [id            |-> id,
     displayName   |-> IF id = 1 THEN "One" ELSE "Two",
     email         |-> EmailOf(id),
     passwordHash  |-> "hash",
     race          |-> "HUMAN",
     class         |-> "FIGHTER",
     experience    |-> 0,
     gold          |-> 0,
     goldInBank    |-> 0,
     fortLevel     |-> 1,
     fortHitpoints |-> Fortifications[1].hitpoints,
     attackTurns   |-> 0,
     units         |-> <<Unit("CITIZEN", 1, MaxQuantity)>>]

OnlyUserOne(row) == [i \in UserIds |-> IF i = 1 THEN row ELSE Null]

Start(table, history) ==
    /\ store = table
    /\ user = [r \in Requests |-> Null]
    /\ pending = {}
    /\ bankHistory = history
    /\ result = [op |-> "start"]
    /\ audit = [store0           |-> table,
                updates          |-> 0,
                writes           |-> 0,
                trainCalls       |-> 0,
                together         |-> FALSE,
                delta            |-> [gold       |-> [i \in UserIds |-> 0],
                                      goldInBank |-> [i \in UserIds |-> 0]],
                base             |-> [r \in Requests |-> Null],
                requested        |-> [r \in Requests |-> 0],
                citizenRequested |-> [r \in Requests |-> FALSE]]

\* fetches: each id is absent or holds a row with some gold in hand and bank
RowsOf(id) ==
    {[NewUser(id) EXCEPT !.gold = g, !.goldInBank = b, !.attackTurns = g + 2 * b] :
        g \in 0..MaxAmount, b \in 0..MaxAmount}

InitFetch ==
    \E table \in [UserIds -> {Null} \cup RowsOf(1) \cup RowsOf(2)] :
        /\ \A i \in UserIds : table[i] # Null => table[i].id = i
        /\ Start(table, <<>>)

NextFetch ==
    \/ \E req \in Requests, id \in FetchIds : FetchById(req, id)
    \/ \E req \in Requests, email \in Emails : FetchByEmail(req, email)
    \/ \E req \in Requests : FetchAll(req)

SpecFetch == InitFetch /\ [][NextFetch]_vars

\* gold: user 1 with no gold, or with one piece in hand and one in the bank
InitGold ==
    \E g \in 0..1 :
        Start(OnlyUserOne([NewUser(1) EXCEPT !.gold = g, !.goldInBank = g]), <<>>)

Amounts == 1..MaxAmount

NextGold ==
    \/ \E req \in Requests, id \in FetchIds : FetchById(req, id)
    \/ \E req \in Requests, amount \in Amounts : AddGold(req, amount)
    \/ \E req \in Requests, amount \in Amounts : SubtractGold(req, amount)
    \/ \E req \in Requests, amount \in Amounts : AddBankedGold(req, amount)
    \/ \E req \in Requests, amount \in Amounts : SubtractBankedGold(req, amount)
    \/ \E w \in pending : DaoApply(w)

SpecGold == InitGold /\ [][NextGold]_vars

\* units: user 1 with citizens and possibly one more entry
StartingUnits ==
    {<<Unit("CITIZEN", 1, c)>> \o more :
        c \in 1..MaxQuantity,
        more \in {<<>>, <<Unit("WORKER", 1, 1)>>, <<Unit("OFFENSE", 1, 1)>>}}

TrainableUnits ==
    {Unit(k[1], k[2], q) :
        k \in {<<"CITIZEN", 1>>, <<"WORKER", 1>>, <<"OFFENSE", 1>>},
        q \in 1..MaxQuantity}

NewUnitLists ==
    UNION {[1..n -> TrainableUnits] : n \in 0..MaxNewUnits}

InitUnits ==
    \E units \in StartingUnits :
        Start(OnlyUserOne([NewUser(1) EXCEPT !.units = units]), <<>>)

NextUnits ==
    \/ \E req \in Requests, id \in FetchIds : FetchById(req, id)
    \/ \E req \in Requests, newUnits \in NewUnitLists : TrainNewUnits(req, newUnits)
    \/ \E w \in pending : DaoApply(w)

SpecUnits == InitUnits /\ [][NextUnits]_vars

\* bank deposits: both users, and a history of entries of every shape
HistoryEntries ==
    [fromUserId : UserIds, fromUserAccount : {"HAND", "BANK"},
     toUserId : UserIds, toUserAccount : {"HAND", "BANK"},
     historyType : {"PLAYER_TRANSFER", "ECONOMY"}, hoursAgo : {1, 30}]

Histories == UNION {[1..n -> HistoryEntries] : n \in 0..MaxHistory}

InitBank ==
    \E history \in Histories :
        Start([i \in UserIds |-> NewUser(i)], history)

NextBank ==
    \/ \E req \in Requests, id \in FetchIds : FetchById(req, id)
    \/ \E req \in Requests : FetchAvailableBankDeposits(req)

SpecBank == InitBank /\ [][NextBank]_vars

\* the pages
NextView ==
    \/ \E req \in Requests : overviewPage(req)
    \/ \E req \in Requests, id \in FetchIds : renderUserProfile(req, id)

InitLevel ==
    \E xp \in 0..MaxExperience :
        Start(OnlyUserOne([NewUser(1) EXCEPT !.experience = xp]), <<>>)

SpecLevel == InitLevel /\ [][NextView]_vars

UnitMixes ==
    {<<Unit("CITIZEN", 1, 1)>> \o workers \o others :
        workers \in {<<>>} \cup {<<Unit("WORKER", 1, q)>> : q \in 0..MaxQuantity}
                           \cup {<<Unit("WORKER", 1, 1), Unit("WORKER", 1, q)>> :
                                     q \in 1..MaxQuantity}
                           \cup {<<Unit("WORKER", 2, 1)>>},
        others \in {<<>>, <<Unit("OFFENSE", 2, 1)>>, <<Unit("SENTRY", 1, MaxQuantity)>>,
                    <<Unit("DEFENSE", 3, 1), Unit("SPY", 1, 1)>>}}

InitGoldPerTurn ==
    \E fort \in FortLevels, units \in UnitMixes :
        Start(OnlyUserOne([NewUser(1) EXCEPT
                              !.fortLevel = fort,
                              !.fortHitpoints = Fortifications[fort].hitpoints,
                              !.units = units]), <<>>)

SpecGoldPerTurn == InitGoldPerTurn /\ [][NextView]_vars

InitFort ==
    \E fort \in 1..Min(MaxFortLevelChecked, Len(Fortifications)) :
        \E hitpoints \in 0..Fortifications[fort].hitpoints :
            Start(OnlyUserOne([NewUser(1) EXCEPT
                                  !.fortLevel = fort,
                                  !.fortHitpoints = hitpoints]), <<>>)

SpecFort == InitFort /\ [][NextView]_vars

-----------------------------------------------------------------------------
(* Properties *)

\* the quantity a list of units holds of one (type, level) pair
QuantityHeld(units, type, lvl) ==
    SumSeq(Quantities(SelectSeq(units, LAMBDA x : x.type = type /\ x.level = lvl)))

UnitLevels == 1..3

\* C1: after trainNewUnits(newUnits), for every non-CITIZEN (type, level)
\* pair, the quantity held is the quantity held before plus the sum of the
\* quantities newUnits requests for the pair (so the pairs not requested are
\* unchanged), also when newUnits names a pair more than once.
C1_TrainMergesRequested ==
    (result.op = "trainNewUnits" /\ ~result.rejected) =>
        \A type \in UnitKinds \ {"CITIZEN"}, lvl \in UnitLevels :
            QuantityHeld(user[result.req].units, type, lvl)
                = QuantityHeld(result.before, type, lvl)
                    + QuantityHeld(result.newUnits, type, lvl)

\* the bank history entries that are transfers of the last 24 hours from the
\* user's own hand to the user's own bank
OwnDeposits(u) ==
    SelectSeq(bankHistory,
        LAMBDA h : /\ h.hoursAgo < 24
                   /\ h.fromUserId = u.id /\ h.fromUserAccount = "HAND"
                   /\ h.historyType = "PLAYER_TRANSFER"
                   /\ h.toUserId = u.id /\ h.toUserAccount = "BANK")

\* C2: fetchAvailableBankDeposits returns maximumBankDeposits minus the number
\* of entries of the last 24 hours that are transfers from the player's own
\* hand to the player's own bank; no entry of another shape is counted.
C2_DepositsCountOwnHandToBank ==
    result.op = "fetchAvailableBankDeposits" =>
        result.ret = 1 - Len(OwnDeposits(user[result.req]))

\* C3: once gold updates that were in flight together have all completed,
\* the stored gold (and banked gold) of each user is the initial stored value
\* plus the sum of the deltas of all updates: no update is lost.
C3_NoLostGoldUpdate ==
    (audit.together /\ pending = {}) =>
        \A id \in UserIds :
            store[id] # Null =>
                /\ store[id].gold = audit.store0[id].gold + audit.delta.gold[id]
                /\ store[id].goldInBank
                       = audit.store0[id].goldInBank + audit.delta.goldInBank[id]

\* C4: subtractGold(amount) leaves the gold in memory, and hands the DAO's
\* setGold, exactly gold - amount, below zero when amount exceeds the gold;
\* subtractBankedGold does the same with goldInBank and setBankedGold.
C4_SubtractGoldNotClamped ==
    /\ result.op = "subtractGold" =>
           /\ user[result.req].gold = result.before + result.delta
           /\ \E w \in pending :
                  /\ w.n = result.write /\ w.op = "setGold"
                  /\ w.id = user[result.req].id
                  /\ w.value = result.before + result.delta
    /\ result.op = "subtractBankedGold" =>
           /\ user[result.req].goldInBank = result.before + result.delta
           /\ \E w \in pending :
                  /\ w.n = result.write /\ w.op = "setBankedGold"
                  /\ w.id = user[result.req].id
                  /\ w.value = result.before + result.delta

\* C4 witness: a subtractGold of more than the gold held has left gold < 0
C4_NegativeGoldReached ==
    /\ result.op = "subtractGold"
    /\ 0 - result.delta > result.before
    /\ user[result.req].gold < 0

UserFields ==
    {"id", "displayName", "email", "passwordHash", "race", "class", "experience",
     "gold", "goldInBank", "fortLevel", "fortHitpoints", "attackTurns", "units"}

SameFields(model, row) ==
    /\ DOMAIN model = UserFields
    /\ \A f \in UserFields : model[f] = row[f]

\* C5: fetchById and fetchByEmail return null exactly when the table holds no
\* row with the id or email asked for, and otherwise a UserModel whose fields
\* are those of the row; no fetch changes the table.
C5_FetchNullIffNoRecord ==
    /\ store = audit.store0
    /\ result.op = "fetchById" =>
           LET stored == result.arg \in UserIds /\ store[result.arg] # Null
           IN  /\ (result.ret = Null) <=> ~stored
               /\ stored => SameFields(result.ret, store[result.arg])
               /\ user[result.req] = result.ret
    /\ result.op = "fetchByEmail" =>
           LET ids == {i \in UserIds :
                           store[i] # Null /\ store[i].email = result.arg}
           IN  /\ (result.ret = Null) <=> (ids = {})
               /\ ids # {} => \E i \in ids : SameFields(result.ret, store[i])
               /\ user[result.req] = result.ret

\* C5 witness: a fetch by an id the table holds no row for has returned null
C5_FetchReturnedNull ==
    /\ result.op = "fetchById"
    /\ result.ret = Null
    /\ \E i \in UserIds : store[i] # Null

\* the level the Levels table gives an experience: 1 at 0, and otherwise the
\* greatest level whose threshold is strictly below the experience
ExpectedLevel(xp) ==
    IF xp = 0 THEN 1
    ELSE CHOOSE l \in LevelKeys :
             /\ Levels[l] < xp
             /\ \A k \in LevelKeys : Levels[k] < xp => k <= l

\* the level getter at every experience of the model
LevelAt == [xp \in 0..MaxExperience |-> level([experience |-> xp])]

\* C6: for every experience >= 0 the level getter is defined, is 1 at
\* experience 0 and otherwise the greatest level of the Levels table whose
\* threshold is strictly less than the experience, lies in 1..4, and is not
\* below the level of any smaller experience.
C6_LevelIsGreatestThresholdBelow ==
    \A req \in Requests :
        Loaded(req) =>
            LET u == user[req]
            IN  /\ IsNum(level(u))
                /\ level(u).v = ExpectedLevel(u.experience)
                /\ level(u).v \in 1..4
                /\ \A xp \in 0..u.experience :
                       IsNum(LevelAt[xp]) /\ LevelAt[xp].v <= level(u).v

\* C6 witness: a user whose experience is exactly the threshold of level 2 is
\* loaded, and is of level 1
C6_AtThresholdStillLevelOne ==
    \E req \in Requests :
        /\ Loaded(req)
        /\ user[req].experience = Levels[2]
        /\ level(user[req]) = Num(1)
        /\ result.op = "overviewPage"

\* the bonus UnitTypes gives a (type, level) pair, if it lists the pair
Listed(unit) == \E i \in DOMAIN UnitTypes : SameUnit(UnitTypes[i], unit)
BonusOf(unit) ==
    UnitTypes[CHOOSE i \in DOMAIN UnitTypes : SameUnit(UnitTypes[i], unit)].bonus

RECURSIVE WorkerGold(_)
WorkerGold(units) ==
    IF units = <<>> THEN 0
    ELSE (IF Head(units).type = "WORKER"
          THEN BonusOf(Head(units)) * Head(units).quantity ELSE 0)
         + WorkerGold(Tail(units))

\* C7: goldPerTurn is the sum over the WORKER entries of (the bonus UnitTypes
\* lists for the entry's type and level) * quantity, plus the goldPerTurn of
\* the fortification; entries of other types add nothing.  With only level-1
\* workers and fortLevel in 1..24 it is 65 * workers + 1000 * fortLevel.
C7_GoldPerTurnWorkersPlusFort ==
    \A req \in Requests :
        Loaded(req) =>
            LET u == user[req]
                workers == {i \in 1..Len(u.units) : u.units[i].type = "WORKER"}
            IN  /\ (\A i \in workers : Listed(u.units[i])) =>
                       goldPerTurn(u)
                           = Num(WorkerGold(u.units)
                                   + Fortifications[u.fortLevel].goldPerTurn)
                /\ (u.fortLevel \in 1..24 /\ \A i \in workers : u.units[i].level = 1) =>
                       goldPerTurn(u)
                           = Num(65 * QuantityHeld(u.units, "WORKER", 1)
                                   + 1000 * u.fortLevel)

\* C7 witness: a user of the highest fortification holding workers and units
\* of other types has had the overview rendered
C7_WorkersAndOthersRendered ==
    \E req \in Requests :
        /\ Loaded(req)
        /\ user[req].fortLevel = 24
        /\ QuantityHeld(user[req].units, "WORKER", 1) > 1
        /\ armySize(user[req]) > 0
        /\ result.op = "overviewPage" /\ result.view.status = "rendered"

\* C8: fortHealth is current = fortHitpoints, max = the fortification's
\* hitpoints and percentage = floor(100 * fortHitpoints / max); with
\* 0 <= fortHitpoints <= max the percentage lies in 0..100 and is 100 exactly
\* when fortHitpoints = max.
C8_FortHealthPercentageIsFloor ==
    \A req \in Requests :
        Loaded(req) =>
            LET u == user[req]
                max == Fortifications[u.fortLevel].hitpoints
            IN  /\ fortHealth(u).current = u.fortHitpoints
                /\ fortHealth(u).max = max
                /\ fortHealth(u).percentage = (100 * u.fortHitpoints) \div max
                /\ fortHealth(u).percentage \in 0..100
                /\ (fortHealth(u).percentage = 100) <=> (u.fortHitpoints = max)

\* C9: xpToNextLevel is defined and strictly positive for every experience
\* >= 0, equals Levels[level + 1] - experience, and a user who gains exactly
\* xpToNextLevel experience is one level higher.
C9_XpToNextLevelReachesNextLevel ==
    \A req \in Requests :
        Loaded(req) =>
            LET u == user[req]
                xp == xpToNextLevel(u)
            IN  /\ IsNum(xp)
                /\ xp.v > 0
                /\ xp.v = Levels[level(u).v + 1] - u.experience
                /\ level([u EXCEPT !.experience = @ + xp.v]) = Num(level(u).v + 1)

\* C10: for a user holding a CITIZEN entry, after any sequence of
\* trainNewUnits calls with non-CITIZEN units of non-negative quantity the
\* population is what it was before the sequence and the CITIZEN quantity is
\* lower by the total quantity requested.
C10_TrainingConservesPopulation ==
    \A req \in Requests :
        (Loaded(req) /\ ~audit.citizenRequested[req]) =>
            /\ population(user[req]) = population(audit.base[req])
            /\ citizens(user[req]).v
                   = citizens(audit.base[req]).v - audit.requested[req]

====
